---- MODULE Spec2Model ----
(***************************************************************************)
(* Model of the react-query posts explorer: the query key builders, the    *)
(* fetch wrapper, the query hooks over the query cache, and the PostsList  *)
(* component's state and handlers.                                         *)
(***************************************************************************)
EXTENDS Integers, Sequences, FiniteSets, TLC

VARIABLES
    mounted,         \* PostsList is rendered
    selectedPostId,  \* PostsList state: number | null
    searchTerm,      \* PostsList state: string (sequence of characters)
    viewMode,        \* PostsList state: "grid" | "list"
    consumers,       \* other components calling the query hooks
    cache,           \* query cache: key -> entry
    inflight,        \* key -> number of Resource Client calls in flight
    calls,           \* Resource Client calls issued so far
    serverPosts,     \* the posts the remote API serves
    keyA, keyB       \* the two most recent Key Builder calls and their results

vars == << mounted, selectedPostId, searchTerm, viewMode, consumers, cache,
           inflight, calls, serverPosts, keyA, keyB >>

appVars == << mounted, selectedPostId, searchTerm, viewMode, consumers, cache,
              inflight, calls, serverPosts >>

----------------------------------------------------------------------------
(* Bounds *)

\* identifiers range over 0..MaxId (0 is the falsy identifier)
MaxId == 2

\* number of other component instances calling the hooks
NumConsumers == 2

\* Resource Client calls issued in one run
MaxCalls == 5

\* length of a search term or of a title
MaxStrLen == 2

----------------------------------------------------------------------------
(* JavaScript values used as key segments and identifiers *)

Str(s) == [t |-> "str", s |-> s, n |-> 0, f |-> {}]
Num(n) == [t |-> "num", s |-> "", n |-> n, f |-> {}]
Null == [t |-> "null", s |-> "", n |-> 0, f |-> {}]
\* an object { filters }: the filters are field/value pairs, compared by value
Obj(filters) == [t |-> "obj", s |-> "", n |-> 0, f |-> filters]

\* !!v for v : number | null
Truthy(v) == v.t = "num" /\ v.n # 0

Ids == {Num(n) : n \in 0..MaxId}
IdValues == Ids \cup {Null}

Filters == {{}, {<<"userId", 1>>}, {<<"userId", 2>>}}

----------------------------------------------------------------------------
(* Key Builder: queryKeys *)

posts_all == << Str("posts") >>

posts_lists_NoSpread == << Str("list") >>

posts_lists == posts_all \o << Str("list") >>

posts_list(filters) == posts_lists \o << Obj(filters) >>

posts_details == posts_all \o << Str("detail") >>

posts_detail_DropId(id) == posts_details

posts_detail(id) == posts_details \o << id >>

posts_comments_FromDetails(postId) == posts_details \o << Str("comments") >>

posts_comments(postId) == posts_detail(postId) \o << Str("comments") >>

users_all == << Str("users") >>

users_lists == users_all \o << Str("list") >>

users_details == users_all \o << Str("detail") >>

users_detail(id) == users_details \o << id >>

\* one call of a builder: fn names the builder, id and filters its argument
queryKeys(entity, fn, id, filters) ==
    IF entity = "posts"
    THEN CASE fn = "all" -> posts_all
           [] fn = "lists" -> posts_lists
           [] fn = "list" -> posts_list(filters)
           [] fn = "details" -> posts_details
           [] fn = "detail" -> posts_detail(id)
           [] fn = "comments" -> posts_comments(id)
    ELSE CASE fn = "all" -> users_all
           [] fn = "lists" -> users_lists
           [] fn = "details" -> users_details
           [] fn = "detail" -> users_detail(id)

BuilderFns(entity) ==
    IF entity = "posts"
    THEN {"all", "lists", "list", "details", "detail", "comments"}
    ELSE {"all", "lists", "details", "detail"}

\* the builder a sub-resource key is documented to build on
ParentFn(fn) ==
    CASE fn = "lists" -> "all"
      [] fn = "details" -> "all"
      [] fn = "list" -> "lists"
      [] fn = "detail" -> "details"
      [] fn = "comments" -> "detail"
      [] OTHER -> "all"

\* key k is p or extends p
IsPrefix(p, k) == Len(p) <= Len(k) /\ SubSeq(k, 1, Len(p)) = p

IsStrictPrefix(p, k) == Len(p) < Len(k) /\ SubSeq(k, 1, Len(p)) = p

----------------------------------------------------------------------------
(* Strings: sequences of characters over a small alphabet *)

Chars == {"a", "A", "b", "B"}

toLowerCaseChar(c) == CASE c = "A" -> "a" [] c = "B" -> "b" [] OTHER -> c

toLowerCase(str) == [i \in 1..Len(str) |-> toLowerCaseChar(str[i])]

\* String.prototype.includes: sub occurs in str as a contiguous run
includes(str, sub) ==
    \E i \in 0..(Len(str) - Len(sub)) : SubSeq(str, i + 1, i + Len(sub)) = sub

----------------------------------------------------------------------------
(* Remote API and Resource Client *)

\* the posts of the spec's scenario: [{id:1,userId:1,title:"a",body:"b"}, {id:2,...}]
DemoPosts ==
    << [id |-> 1, userId |-> 1, title |-> <<"a">>, body |-> <<"b">>],
       [id |-> 2, userId |-> 1, title |-> <<"B">>, body |-> <<"b", "A">>] >>

NoData == [t |-> "none", id |-> Null, items |-> << >>]

NoError == [name |-> "", message |-> [text |-> "", status |-> 0]]

NoFn == [path |-> "", id |-> Null]

\* what the transport delivers for one GET: a rejected fetch, or a response with
\* a status and a body that is or is not JSON
Responses ==
    { [kind |-> "networkError", status |-> 0, json |-> FALSE],
      [kind |-> "http", status |-> 200, json |-> TRUE],
      [kind |-> "http", status |-> 200, json |-> FALSE],
      [kind |-> "http", status |-> 404, json |-> TRUE],
      [kind |-> "http", status |-> 500, json |-> TRUE] }

\* Response.ok
ResponseOk(response) == response.status >= 200 /\ response.status <= 299

\* the JSON document the remote API serves at an endpoint
Body(endpoint, posts) ==
    CASE endpoint.path = "/posts" -> [t |-> "posts", id |-> Null, items |-> posts]
      [] endpoint.path = "/posts/:id" ->
            [t |-> "post", id |-> endpoint.id,
             items |-> SelectSeq(posts, LAMBDA p : Num(p.id) = endpoint.id)]
      [] OTHER -> [t |-> "comments", id |-> endpoint.id, items |-> << >>]

\* fetchFromAPI: the outcome of one call, given what the transport delivered.
\* A failure is an Error object: a name and a message, nothing else.
fetchFromAPI(endpoint, response, posts) ==
    IF response.kind = "networkError"
    THEN [ok |-> FALSE, data |-> NoData,
          error |-> [name |-> "TypeError",
                     message |-> [text |-> "Failed to fetch", status |-> 0]]]
    ELSE IF ~ResponseOk(response)
    THEN [ok |-> FALSE, data |-> NoData,
          error |-> [name |-> "Error",
                     message |-> [text |-> "HTTP error! status: ",
                                  status |-> response.status]]]
    ELSE IF ~response.json
    THEN [ok |-> FALSE, data |-> NoData,
          error |-> [name |-> "SyntaxError",
                     message |-> [text |-> "Unexpected token", status |-> 0]]]
    ELSE [ok |-> TRUE, data |-> Body(endpoint, posts), error |-> NoError]

\* postsAPI: the endpoint each producer fetches
getPosts == [path |-> "/posts", id |-> Null]

getPost(id) == [path |-> "/posts/:id", id |-> id]

getPostComments(postId) == [path |-> "/posts/:id/comments", id |-> postId]

----------------------------------------------------------------------------
(* Query Hooks: the options each hook hands to useQuery *)

\* the options argument of usePost: absent, or an object that may set enabled
NoOptions == [hasEnabled |-> FALSE, enabled |-> FALSE]

EnabledOption(b) == [hasEnabled |-> TRUE, enabled |-> b]

HookOptions == {NoOptions, EnabledOption(TRUE), EnabledOption(FALSE)}

usePosts == [queryKey |-> posts_lists, queryFn |-> getPosts, enabled |-> TRUE]

\* enabled: !!id comes first and ...options is spread after it
usePost(id, options) ==
    [queryKey |-> posts_detail(id),
     queryFn |-> getPost(id),
     enabled |-> IF options.hasEnabled THEN options.enabled ELSE Truthy(id)]

usePostComments(postId) ==
    [queryKey |-> posts_comments(postId),
     queryFn |-> getPostComments(postId),
     enabled |-> Truthy(postId)]

----------------------------------------------------------------------------
(* Query cache and useQuery *)

\* failed attempts that are retried before a failure is surfaced
RetryCount == 3

QueryKeys ==
    {posts_lists} \cup {posts_detail(id) : id \in IdValues}
                  \cup {posts_comments(id) : id \in Ids}

EmptyEntry ==
    [status |-> "empty", data |-> NoData, error |-> NoError,
     failureCount |-> 0, isInvalidated |-> FALSE, queryFn |-> NoFn]

\* what useQuery returns to the caller of a hook
Result(c, h) ==
    [data |-> c[h.queryKey].data,
     isLoading |-> c[h.queryKey].status = "fetching" /\ c[h.queryKey].data = NoData,
     isRefetching |-> c[h.queryKey].status = "fetching" /\ c[h.queryKey].data # NoData,
     isError |-> c[h.queryKey].status = "error",
     error |-> c[h.queryKey].error]

Fetch_NoDedup(q, k, fn) ==
    [cache |-> [q.cache EXCEPT ![k] = [@ EXCEPT !.status = "fetching",
                                                !.error = NoError,
                                                !.failureCount = 0,
                                                !.queryFn = fn]],
     inflight |-> [q.inflight EXCEPT ![k] = @ + 1],
     calls |-> q.calls + 1]

\* q is the record [cache, inflight, calls]; a fetch of key k is wanted:
\* attach to the one in flight, or issue one Resource Client call
Fetch(q, k, fn) ==
    IF q.cache[k].status = "fetching"
    THEN q
    ELSE [cache |-> [q.cache EXCEPT ![k] = [@ EXCEPT !.status = "fetching",
                                                     !.error = NoError,
                                                     !.failureCount = 0,
                                                     !.queryFn = fn]],
          inflight |-> [q.inflight EXCEPT ![k] = @ + 1],
          calls |-> q.calls + 1]

Observe_IgnoreFresh(q, h) ==
    IF h.enabled THEN Fetch(q, h.queryKey, h.queryFn) ELSE q

\* an observer with options h subscribes (a hook is called on mount, or with a
\* new key or a newly true enabled flag): a gated-off query is left alone,
\* fresh data is served from the cache, anything else is fetched
Observe(q, h) ==
    IF h.enabled /\ q.cache[h.queryKey].status # "fresh"
    THEN Fetch(q, h.queryKey, h.queryFn)
    ELSE q

\* retry: every failure is retried while failureCount is below the bound
ShouldRetry(failureCount, error) == failureCount < RetryCount

\* the entry of key k after its call in flight settled with result r
Settle(entry, r) ==
    IF r.ok
    THEN [entry EXCEPT !.status = "fresh", !.data = r.data, !.error = NoError,
                       !.failureCount = 0, !.isInvalidated = FALSE]
    ELSE IF ShouldRetry(entry.failureCount, r.error)
    THEN [entry EXCEPT !.failureCount = @ + 1]
    ELSE [entry EXCEPT !.status = "error", !.error = r.error,
                       !.failureCount = @ + 1]

----------------------------------------------------------------------------
(* PostsList: the values computed on each render *)

\* the hooks PostsList calls on a render with selection sel
PostsListPost(sel) == usePost(sel, EnabledOption(Truthy(sel)))

postsQuery == Result(cache, usePosts)

postQuery == Result(cache, PostsListPost(selectedPostId))

filteredPostsOf_TitleOnly(data, term) ==
    IF data.t # "posts"
    THEN << >>
    ELSE SelectSeq(data.items,
                   LAMBDA post : includes(toLowerCase(post.title), toLowerCase(term)))

\* posts?.filter(...) || []
filteredPostsOf(data, term) ==
    IF data.t # "posts"
    THEN << >>
    ELSE SelectSeq(data.items,
                   LAMBDA post :
                       \/ includes(toLowerCase(post.title), toLowerCase(term))
                       \/ includes(toLowerCase(post.body), toLowerCase(term)))

filteredPosts == filteredPostsOf(postsQuery.data, searchTerm)

\* Array.prototype.findIndex, 0-based, -1 when absent
findIndex(list, id) ==
    IF \E i \in 1..Len(list) : Num(list[i].id) = id
    THEN (CHOOSE i \in 1..Len(list) :
              /\ Num(list[i].id) = id
              /\ \A j \in 1..(i - 1) : Num(list[j].id) # id) - 1
    ELSE -1

selectedPostIndex ==
    IF Truthy(selectedPostId) THEN findIndex(filteredPosts, selectedPostId) ELSE -1

\* which of the three returns of PostsList renders
Screen ==
    IF ~mounted THEN "none"
    ELSE IF postsQuery.isLoading THEN "loading"
    ELSE IF postsQuery.isError THEN "error"
    ELSE "main"

\* the places where <PostDetail /> is rendered: inline above card i in list
\* view, and the popover in grid view
DetailPanels ==
    IF Screen # "main" THEN {}
    ELSE {<<"inline", i>> : i \in {j \in 0..(Len(filteredPosts) - 1) :
                                      viewMode = "list" /\ selectedPostIndex = j
                                      /\ ~(Len(filteredPosts) = 0 /\ searchTerm # << >>)}}
         \cup (IF viewMode = "grid" /\ Truthy(selectedPostId)
               THEN {<<"popover", 0>>} ELSE {})

\* what PostDetail shows
PostDetailView ==
    IF ~Truthy(selectedPostId) THEN "nothing"
    ELSE IF postQuery.isLoading THEN "spinner"
    ELSE IF postQuery.data # NoData THEN "post"
    ELSE "blank"

----------------------------------------------------------------------------
(* Other components calling the hooks *)

Consumers == 1..NumConsumers

NoCall == [hook |-> "none", id |-> Null, options |-> NoOptions]

HookCalls ==
    {[hook |-> "usePosts", id |-> Null, options |-> NoOptions]}
    \cup {[hook |-> "usePost", id |-> id, options |-> o] :
              id \in {Num(0), Num(1)}, o \in HookOptions}
    \cup {[hook |-> "usePostComments", id |-> id, options |-> NoOptions] :
              id \in {Num(0), Num(1)}}

\* the useQuery options a hook call produces
OptionsOf(call) ==
    CASE call.hook = "usePost" -> usePost(call.id, call.options)
      [] call.hook = "usePostComments" -> usePostComments(call.id)
      [] OTHER -> usePosts

\* the useQuery options of every observer now subscribed
Observers(m, sel, cons) ==
    (IF m THEN {usePosts, PostsListPost(sel)} ELSE {})
    \cup {OptionsOf(cons[c]) : c \in {d \in Consumers : cons[d] # NoCall}}

\* a key some subscribed observer reads with its enabled flag true
Active(obs, k) == \E h \in obs : h.queryKey = k /\ h.enabled

Q == [cache |-> cache, inflight |-> inflight, calls |-> calls]

SetQ(q) ==
    /\ cache' = q.cache
    /\ inflight' = q.inflight
    /\ calls' = q.calls

----------------------------------------------------------------------------
(* Initial state *)

KeyCall(entity, fn, id, filters) ==
    [entity |-> entity, fn |-> fn, id |-> id, filters |-> filters,
     key |-> queryKeys(entity, fn, id, filters)]

InitWith(posts) ==
    /\ mounted = FALSE
    /\ selectedPostId = Null
    /\ searchTerm = << >>
    /\ viewMode = "grid"
    /\ consumers = [c \in Consumers |-> NoCall]
    /\ cache = [k \in QueryKeys |-> EmptyEntry]
    /\ inflight = [k \in QueryKeys |-> 0]
    /\ calls = 0
    /\ serverPosts = posts
    /\ keyA = KeyCall("posts", "all", Null, {})
    /\ keyB = KeyCall("posts", "all", Null, {})

Init == InitWith(DemoPosts)

----------------------------------------------------------------------------
(* Actions *)

\* a Key Builder is called
BuildKey(entity, fn, id, filters) ==
    /\ keyA' = KeyCall(entity, fn, id, filters)
    /\ keyB' = keyA
    /\ UNCHANGED appVars

\* PostsList is rendered for the first time: useState initial values, then
\* usePosts() and usePost(selectedPostId!, { enabled: !!selectedPostId })
Mount ==
    /\ ~mounted
    /\ calls < MaxCalls
    /\ mounted' = TRUE
    /\ selectedPostId' = Null
    /\ searchTerm' = << >>
    /\ viewMode' = "grid"
    /\ SetQ(Observe(Observe(Q, usePosts), PostsListPost(Null)))
    /\ UNCHANGED << consumers, serverPosts, keyA, keyB >>

Unmount ==
    /\ mounted
    /\ mounted' = FALSE
    /\ selectedPostId' = Null
    /\ searchTerm' = << >>
    /\ viewMode' = "grid"
    /\ UNCHANGED << consumers, cache, inflight, calls, serverPosts, keyA, keyB >>

\* the selection handlePostClick(post) leaves
handlePostClickSets_NeverClose(sel, post) == Num(post.id)

handlePostClickSets(sel, post) == IF sel = Num(post.id) THEN Null ELSE Num(post.id)

\* a post card is clicked; the re-render calls usePost with the new selection
handlePostClick(post) ==
    /\ Screen = "main"
    /\ calls < MaxCalls
    /\ \E i \in 1..Len(filteredPosts) : filteredPosts[i] = post
    /\ selectedPostId' = handlePostClickSets(selectedPostId, post)
    /\ SetQ(Observe(Q, PostsListPost(selectedPostId')))
    /\ UNCHANGED << mounted, searchTerm, viewMode, consumers, serverPosts, keyA, keyB >>

\* setSelectedPostId(null): the X button of PostDetail, a click on the grid
\* overlay, or Escape in grid view
closeDetail ==
    /\ mounted
    /\ Truthy(selectedPostId)
    /\ \/ DetailPanels # {}
       \/ viewMode = "grid"
    /\ selectedPostId' = Null
    /\ SetQ(Observe(Q, PostsListPost(Null)))
    /\ UNCHANGED << mounted, searchTerm, viewMode, consumers, serverPosts, keyA, keyB >>

setSearchTerm_ClearsSelection(term) ==
    /\ Screen = "main"
    /\ searchTerm' = term
    /\ selectedPostId' = Null
    /\ UNCHANGED << mounted, viewMode, consumers, cache, inflight,
                    calls, serverPosts, keyA, keyB >>

\* the search box changes (or its X button clears it)
setSearchTerm(term) ==
    /\ Screen = "main"
    /\ searchTerm' = term
    /\ UNCHANGED << mounted, selectedPostId, viewMode, consumers, cache, inflight,
                    calls, serverPosts, keyA, keyB >>

setViewMode(mode) ==
    /\ Screen = "main"
    /\ viewMode' = mode
    /\ UNCHANGED << mounted, selectedPostId, searchTerm, consumers, cache, inflight,
                    calls, serverPosts, keyA, keyB >>

refetchClick_AnyScreen ==
    /\ mounted
    /\ calls < MaxCalls
    /\ SetQ(Fetch(Q, usePosts.queryKey, usePosts.queryFn))
    /\ UNCHANGED << mounted, selectedPostId, searchTerm, viewMode, consumers,
                    serverPosts, keyA, keyB >>

\* the Try Again button of the error screen: refetch() of the posts query
refetchClick ==
    /\ Screen = "error"
    /\ ~postsQuery.isRefetching
    /\ calls < MaxCalls
    /\ SetQ(Fetch(Q, usePosts.queryKey, usePosts.queryFn))
    /\ UNCHANGED << mounted, selectedPostId, searchTerm, viewMode, consumers,
                    serverPosts, keyA, keyB >>

\* another component instance mounts and calls a hook
ConsumerMount(c, call) ==
    /\ consumers[c] = NoCall
    /\ calls < MaxCalls
    /\ consumers' = [consumers EXCEPT ![c] = call]
    /\ SetQ(Observe(Q, OptionsOf(call)))
    /\ UNCHANGED << mounted, selectedPostId, searchTerm, viewMode, serverPosts,
                    keyA, keyB >>

Respond_StaleClosure(k, response) ==
    /\ inflight[k] > 0
    /\ LET r == fetchFromAPI(cache[k].queryFn, response, serverPosts)
           e == Settle(cache[k], r)
       IN /\ e.status = "fetching" => calls < MaxCalls
          /\ cache' = [cache EXCEPT
                           ![k] = e,
                           ![posts_detail(selectedPostId)].data =
                               IF r.ok /\ IsStrictPrefix(posts_details, k) /\ Len(k) = 3
                               THEN r.data ELSE @]
          /\ inflight' = [inflight EXCEPT ![k] = IF e.status = "fetching" THEN @ ELSE @ - 1]
          /\ calls' = IF e.status = "fetching" THEN calls + 1 ELSE calls
    /\ UNCHANGED << mounted, selectedPostId, searchTerm, viewMode, consumers,
                    serverPosts, keyA, keyB >>

\* the transport delivers response to the call in flight for key k: the fetch
\* settles, or fails and is retried with one more Resource Client call
Respond(k, response) ==
    /\ inflight[k] > 0
    /\ LET r == fetchFromAPI(cache[k].queryFn, response, serverPosts)
           e == Settle(cache[k], r)
       IN /\ e.status = "fetching" => calls < MaxCalls
          /\ cache' = [cache EXCEPT ![k] = e]
          /\ inflight' = [inflight EXCEPT ![k] = IF e.status = "fetching" THEN @ ELSE @ - 1]
          /\ calls' = IF e.status = "fetching" THEN calls + 1 ELSE calls
    /\ UNCHANGED << mounted, selectedPostId, searchTerm, viewMode, consumers,
                    serverPosts, keyA, keyB >>

\* the time-to-live of the data of key k runs out
StaleByTime(k) ==
    /\ cache[k].status = "fresh"
    /\ cache' = [cache EXCEPT ![k].status = "stale"]
    /\ UNCHANGED << mounted, selectedPostId, searchTerm, viewMode, consumers,
                    inflight, calls, serverPosts, keyA, keyB >>

\* key k matches the invalidated key
Matches(key, k) == IsPrefix(key, k)

\* invalidation marks a matching entry stale
Marked(key, k) ==
    IF Matches(key, k) /\ cache[k].status # "empty"
    THEN [cache[k] EXCEPT !.status = IF @ = "fresh" THEN "stale" ELSE @,
                          !.isInvalidated = TRUE]
    ELSE cache[k]

\* invalidation refetches a matching entry that is being observed
Refetched(key, k) ==
    /\ Matches(key, k)
    /\ cache[k].status \in {"fresh", "stale", "error"}
    /\ Active(Observers(mounted, selectedPostId, consumers), k)

\* queryClient.invalidateQueries({ queryKey: key }): every matching entry is
\* marked stale, and the matching entries that are being observed are refetched
invalidateQueries(key) ==
    LET again == {k \in QueryKeys : Refetched(key, k)}
    IN /\ calls + Cardinality(again) <= MaxCalls
       /\ cache' = [k \in QueryKeys |->
                       IF k \in again
                       THEN [cache[k] EXCEPT !.status = "fetching",
                                             !.error = NoError,
                                             !.failureCount = 0,
                                             !.isInvalidated = TRUE]
                       ELSE Marked(key, k)]
       /\ inflight' = [k \in QueryKeys |->
                          IF k \in again THEN inflight[k] + 1 ELSE inflight[k]]
       /\ calls' = calls + Cardinality(again)
       /\ UNCHANGED << mounted, selectedPostId, searchTerm, viewMode, consumers,
                       serverPosts, keyA, keyB >>

----------------------------------------------------------------------------
(* Specifications *)

\* the terms typed into the search box: none, one that matches the second
\* post only, and one that matches no post
DemoTerms == {<< >>, <<"b", "a">>, <<"A", "b">>}

\* the keys invalidated: every post, the lists (as after creating a post), one
\* post with what it owns, and another entity
InvalidationKeys == {posts_all, posts_lists, posts_detail(Num(1)), users_all}

ServerNext ==
    \/ \E k \in QueryKeys, response \in Responses : Respond(k, response)
    \/ \E k \in QueryKeys : StaleByTime(k)
    \/ \E key \in InvalidationKeys : invalidateQueries(key)

\* the application: PostsList over the query cache
Next ==
    \/ Mount
    \/ Unmount
    \/ \E i \in 1..Len(serverPosts) : handlePostClick(serverPosts[i])
    \/ closeDetail
    \/ \E term \in DemoTerms : setSearchTerm(term)
    \/ \E mode \in {"grid", "list"} : setViewMode(mode)
    \/ refetchClick
    \/ ServerNext

Spec == Init /\ [][Next]_vars

\* the hooks called by other components
HookNext ==
    \/ \E c \in Consumers, call \in HookCalls : ConsumerMount(c, call)
    \/ ServerNext

HookSpec == Init /\ [][HookNext]_vars

\* the Key Builder on its own
KeyNext ==
    \E entity \in {"posts", "users"} :
        \E fn \in BuilderFns(entity) :
            \E id \in (IF fn \in {"detail", "comments"} THEN IdValues ELSE {Null}) :
                \E filters \in (IF fn = "list" THEN Filters ELSE {{}}) :
                    BuildKey(entity, fn, id, filters)

KeySpec == Init /\ [][KeyNext]_vars

\* the search box over every short list of posts and every short term
FilterChars == {"a", "A", "b"}

Texts(n) == UNION {[1..m -> FilterChars] : m \in 0..n}

\* one post with every short title and every shorter body
FilterPosts ==
    {[id |-> 1, userId |-> 1, title |-> t, body |-> b] :
        t \in Texts(MaxStrLen), b \in Texts(MaxStrLen - 1)}

\* no post, one post, or a first post followed by the scenario's second post
FilterPostLists ==
    {<< >>} \cup {<<p>> : p \in FilterPosts}
            \cup {<<p, DemoPosts[2]>> : p \in {q \in FilterPosts : q.body = << >>}}

FilterInit == \E posts \in FilterPostLists : InitWith(posts)

FilterNext ==
    \/ Mount
    \/ \E k \in QueryKeys, response \in Responses : Respond(k, response)
    \/ \E term \in Texts(MaxStrLen) : setSearchTerm(term)

FilterSpec == FilterInit /\ [][FilterNext]_vars

----------------------------------------------------------------------------
(* Properties *)

\* the query a hook call of another component reads
CallKey(c) == OptionsOf(consumers[c]).queryKey

CallResult(c) == Result(cache, OptionsOf(consumers[c]))

\* C1: a usePost or usePostComments call whose identifier is absent (0 or null)
\* is gated off whatever options the caller passes: its producer is never
\* invoked and it reports no data, no error and not loading.
C1_GatedQueryNeverRuns ==
    \A c \in Consumers :
        (consumers[c].hook \in {"usePost", "usePostComments"} /\ ~Truthy(consumers[c].id))
            => /\ inflight[CallKey(c)] = 0
               /\ cache[CallKey(c)].status = "empty"
               /\ CallResult(c).data = NoData
               /\ ~CallResult(c).isError
               /\ ~CallResult(c).isLoading

\* C2: no key ever has more than one Resource Client call in flight, and a
\* component that asks for a key that is being fetched attaches to the call in
\* flight: no call is issued for it.
C2_OneInFlightPerKey ==
    [][/\ \A k \in QueryKeys : inflight'[k] <= 1
       /\ \A c \in Consumers, call \in HookCalls :
              (/\ ConsumerMount(c, call)
               /\ OptionsOf(call).enabled
               /\ cache[OptionsOf(call).queryKey].status = "fetching")
                  => calls' = calls /\ inflight' = inflight]_vars

\* two components read the same key while its single call is in flight
C2_Witness ==
    \E c, d \in Consumers :
        /\ c # d
        /\ consumers[c] # NoCall
        /\ consumers[d] # NoCall
        /\ CallKey(c) = CallKey(d)
        /\ OptionsOf(consumers[c]).enabled
        /\ OptionsOf(consumers[d]).enabled
        /\ inflight[CallKey(c)] = 1
        /\ calls = 1

C4_DetailKeysDistinct ==
    (/\ keyA.fn = "detail"
     /\ keyB.fn = "detail"
     /\ keyA.entity = keyB.entity
     /\ keyA.id \in Ids
     /\ keyB.id \in Ids
     /\ keyA.id # keyB.id)
        => /\ keyA.key # keyB.key
           /\ IsStrictPrefix(queryKeys(keyA.entity, "details", Null, {}), keyA.key)
           /\ IsStrictPrefix(queryKeys(keyB.entity, "details", Null, {}), keyB.key)

\* detail keys were built for two different identifiers of one entity
C4_Witness ==
    /\ keyA.fn = "detail"
    /\ keyB.fn = "detail"
    /\ keyA.entity = "posts"
    /\ keyB.entity = "posts"
    /\ keyA.id = Num(1)
    /\ keyB.id = Num(2)
    /\ keyA.key # keyB.key

\* C5: the key a builder returns for a sub-resource strictly extends the key
\* of its parent: lists() and details() extend all, list(filters) extends
\* lists(), detail(id) extends details(), comments(postId) extends detail(postId).
C5_StrictExtensionOfParent ==
    keyA.fn # "all" =>
        IsStrictPrefix(queryKeys(keyA.entity, ParentFn(keyA.fn), keyA.id, keyA.filters),
                       keyA.key)

\* a comments key was built and extends the detail key of its post
C5_Witness ==
    /\ keyA.entity = "posts"
    /\ keyA.fn = "comments"
    /\ keyA.id = Num(1)
    /\ keyA.key = posts_detail(Num(1)) \o << Str("comments") >>

\* the failures the retry policy of the spec does not retry: a body that does
\* not decode, and a 4xx status
NonRetryable(error) ==
    \/ error.name = "SyntaxError"
    \/ error.name = "Error" /\ error.message.status >= 400 /\ error.message.status <= 499

\* C6: a call that fails with a non-retryable failure is not retried: the
\* failure is surfaced at once, so a key whose calls all fail that way is
\* called exactly once; a retryable failure is retried until RetryCount
\* retries are used up and is surfaced then.
C6_RetryOnlyRetryable ==
    [][\A k \in QueryKeys, response \in Responses :
           (/\ Respond(k, response)
            /\ ~fetchFromAPI(cache[k].queryFn, response, serverPosts).ok)
               => IF NonRetryable(fetchFromAPI(cache[k].queryFn, response, serverPosts).error)
                  THEN cache'[k].status = "error" /\ calls' = calls
                  ELSE IF cache[k].failureCount < RetryCount
                  THEN cache'[k].status = "fetching" /\ calls' = calls + 1
                  ELSE cache'[k].status = "error" /\ calls' = calls]_vars

\* C7: when the posts query has failed on HTTP 500, it reports isError with an
\* error whose statusCode is 500.
C7_ErrorHasStatusCode ==
    (/\ mounted
     /\ postsQuery.isError
     /\ postsQuery.error.name = "Error"
     /\ postsQuery.error.message.status = 500)
        => /\ "statusCode" \in DOMAIN postsQuery.error
           /\ postsQuery.error.statusCode = 500

\* two characters are the same letter, whatever their case
SameLetter(c, d) == c = d \/ {c, d} = {"a", "A"} \/ {c, d} = {"b", "B"}

\* term occurs in str, letter for letter, whatever the case
ContainsIgnoringCase(str, term) ==
    \E offset \in 0..(Len(str) - Len(term)) :
        \A j \in 1..Len(term) : SameLetter(str[offset + j], term[j])

MatchesTerm(post, term) ==
    ContainsIgnoringCase(post.title, term) \/ ContainsIgnoringCase(post.body, term)

\* the positions in list of the posts that match term
MatchingAt(list, term) == {i \in 1..Len(list) : MatchesTerm(list[i], term)}

\* C8: the posts shown are exactly the fetched posts whose title or body
\* contains the search term whatever the case, in the order they were fetched;
\* an empty term shows every post and absent data shows none.
C8_FilterBySubstring ==
    mounted =>
        IF postsQuery.data = NoData
        THEN filteredPosts = << >>
        ELSE /\ Len(filteredPosts) = Cardinality(MatchingAt(postsQuery.data.items, searchTerm))
             /\ \A j \in 1..Len(filteredPosts) :
                    \E i \in MatchingAt(postsQuery.data.items, searchTerm) :
                        /\ filteredPosts[j] = postsQuery.data.items[i]
                        /\ Cardinality({h \in MatchingAt(postsQuery.data.items, searchTerm) :
                                            h < i}) = j - 1
             /\ searchTerm = << >> => filteredPosts = postsQuery.data.items

\* a term matches the body of the second post only, and only when case is ignored
C8_Witness ==
    /\ mounted
    /\ searchTerm = <<"b", "a">>
    /\ Len(postsQuery.data.items) = 2
    /\ filteredPosts = << postsQuery.data.items[2] >>
    /\ ~includes(postsQuery.data.items[2].body, searchTerm)

\* C9: a click on the selected post clears the selection and issues no call; a
\* click on another post selects it, and issues no call when the detail entry
\* of that post is fresh.
C9_ToggleSelection ==
    [][\A i \in 1..Len(serverPosts) :
           handlePostClick(serverPosts[i]) =>
               IF selectedPostId = Num(serverPosts[i].id)
               THEN selectedPostId' = Null /\ calls' = calls /\ inflight' = inflight
               ELSE /\ selectedPostId' = Num(serverPosts[i].id)
                    /\ cache[posts_detail(Num(serverPosts[i].id))].status = "fresh"
                           => calls' = calls /\ inflight' = inflight /\ cache' = cache]_vars

\* the selection was cleared while the detail of post 1 is cached and fresh
C9_Witness ==
    /\ mounted
    /\ selectedPostId = Null
    /\ cache[posts_detail(Num(1))].status = "fresh"
    /\ cache[posts_detail(Num(1))].data.items = << serverPosts[1] >>

\* a read of key h.queryKey by a newly subscribed observer h
ReadServedFromCache(h) ==
    /\ cache[h.queryKey].status = "fresh" =>
           /\ cache'[h.queryKey] = cache[h.queryKey]
           /\ inflight'[h.queryKey] = inflight[h.queryKey]
           /\ calls' = calls
           /\ Result(cache', h).data = cache[h.queryKey].data
           /\ Result(cache', h).data # NoData
    /\ cache[h.queryKey].status = "stale" =>
           /\ Result(cache', h).data = cache[h.queryKey].data
           /\ Result(cache', h).data # NoData
           /\ ~Result(cache', h).isLoading
           /\ cache'[h.queryKey].status = "fetching"
           /\ inflight'[h.queryKey] = inflight[h.queryKey] + 1
           /\ calls' = calls + 1

\* C10: a read of a key whose data is fresh is served from the cache and issues
\* no call; a read of a key whose data is stale returns the cached data at once
\* and starts one background fetch.
C10_CacheFirst ==
    [][/\ Mount => ReadServedFromCache(usePosts)
       /\ \A i \in 1..Len(serverPosts) :
              (/\ handlePostClick(serverPosts[i])
               /\ selectedPostId # Num(serverPosts[i].id))
                  => ReadServedFromCache(PostsListPost(Num(serverPosts[i].id)))]_vars

\* the selected post's stale detail is shown while it is fetched again
C10_Witness ==
    /\ mounted
    /\ selectedPostId = Num(1)
    /\ cache[posts_detail(Num(1))].status = "fetching"
    /\ cache[posts_detail(Num(1))].data # NoData
    /\ ~cache[posts_detail(Num(1))].isInvalidated
    /\ inflight[posts_detail(Num(1))] = 1

\* the status transitions of the state machine of a cache entry
StatusTransitions ==
    { <<"empty", "fetching">>, <<"fetching", "fresh">>, <<"fetching", "error">>,
      <<"fresh", "stale">>, <<"stale", "fetching">>, <<"error", "fetching">> }

\* the step is an invalidation that refetches the observed entry of key k: the
\* entry is first marked (a fresh one becomes stale) and then fetched, so its
\* status takes two transitions in the one step
InvalidatedAndRefetched(k) ==
    \E key \in InvalidationKeys :
        /\ Refetched(key, k)
        /\ cache'[k] = [Marked(key, k) EXCEPT !.status = "fetching",
                                              !.error = NoError,
                                              !.failureCount = 0]
        /\ inflight'[k] = inflight[k] + 1
        /\ \/ Marked(key, k).status = cache[k].status
           \/ << cache[k].status, Marked(key, k).status >> \in StatusTransitions
        /\ << Marked(key, k).status, "fetching" >> \in StatusTransitions

\* C11: the status of a cache entry only changes along empty -> fetching,
\* fetching -> fresh, fetching -> error, fresh -> stale, stale -> fetching and
\* error -> fetching; no entry becomes fresh or error except from fetching.
C11_EntryStateMachine ==
    [][\A k \in QueryKeys :
           \/ cache'[k].status = cache[k].status
           \/ << cache[k].status, cache'[k].status >> \in StatusTransitions
           \/ InvalidatedAndRefetched(k)]_vars

\* the posts query failed on every attempt, the error was surfaced, and the
\* Try Again button started it again
C11_Witness ==
    /\ mounted
    /\ cache[posts_lists].status = "fetching"
    /\ cache[posts_lists].data = NoData
    /\ cache[posts_lists].failureCount = 0
    /\ inflight[posts_lists] = 1
    /\ calls = RetryCount + 2
    /\ \A k \in QueryKeys \ {posts_lists} : cache[k].status = "empty"

\* the detail view shows the selected post or no post
ShowsSelectedPostOnly ==
    mounted =>
        /\ PostDetailView = "post" =>
               /\ postQuery.data.t = "post"
               /\ postQuery.data.id = selectedPostId
               /\ \A i \in 1..Len(postQuery.data.items) :
                      Num(postQuery.data.items[i].id) = selectedPostId
        /\ ~Truthy(selectedPostId) =>
               /\ PostDetailView = "nothing"
               /\ DetailPanels = {}
               /\ postQuery.data = NoData
               /\ ~postQuery.isLoading

\* C12: a request that completes for a key other than the one of the selected
\* post (its consumer was torn down: the selection was cleared or moved on)
\* changes nothing the detail view reads; in every state the detail view shows
\* only data of the selected post, and nothing when no post is selected.
C12_LateCompletionNotShown ==
    /\ []ShowsSelectedPostOnly
    /\ [][\A k \in QueryKeys, response \in Responses :
              (Respond(k, response) /\ k # posts_detail(selectedPostId))
                  => /\ postQuery' = postQuery
                     /\ PostDetailView' = PostDetailView
                     /\ selectedPostId' = selectedPostId]_vars

\* post 1 was selected and its detail arrived; post 2 is selected now and its
\* detail is still being fetched: the view shows the spinner, not post 1
C12_Witness ==
    /\ mounted
    /\ selectedPostId = Num(2)
    /\ cache[posts_detail(Num(1))].status = "fresh"
    /\ cache[posts_detail(Num(1))].data.items = << serverPosts[1] >>
    /\ cache[posts_detail(Num(2))].status = "fetching"
    /\ inflight[posts_detail(Num(2))] = 1
    /\ PostDetailView = "spinner"

\* the selected post is filtered out of the list view
SelectedPostFilteredOut ==
    /\ Screen = "main"
    /\ viewMode = "list"
    /\ Truthy(selectedPostId)
    /\ selectedPostIndex = -1

\* C13: setSearchTerm and setViewMode leave selectedPostId (and the query cache)
\* unchanged; so in list view a selected post that is filtered out has no detail
\* panel although it is still selected and its detail query still enabled; and
\* no state renders the detail panel more than once.
C13_SelectionSurvivesFilter ==
    /\ [](/\ Cardinality(DetailPanels) <= 1
          /\ SelectedPostFilteredOut =>
                 /\ DetailPanels = {}
                 /\ PostsListPost(selectedPostId).enabled
                 /\ PostsListPost(selectedPostId).queryKey = posts_detail(selectedPostId))
    /\ [][/\ \A term \in DemoTerms :
                 setSearchTerm(term) =>
                     /\ selectedPostId' = selectedPostId
                     /\ << cache, inflight, calls >>' = << cache, inflight, calls >>
          /\ \A mode \in {"grid", "list"} :
                 setViewMode(mode) =>
                     /\ selectedPostId' = selectedPostId
                     /\ << cache, inflight, calls >>' = << cache, inflight, calls >>]_vars

\* post 1 is selected and its detail cached; the search term keeps post 2 only,
\* so the list view shows post 2 and no detail panel
C13_Witness ==
    /\ SelectedPostFilteredOut
    /\ selectedPostId = Num(1)
    /\ searchTerm = <<"b", "a">>
    /\ filteredPosts = << serverPosts[2] >>
    /\ cache[posts_detail(Num(1))].status = "fresh"
    /\ DetailPanels = {}

====
